---- MODULE Spec2Model ----
(***************************************************************************)
(* Model of server.py of us_stock_mcp_server: the per-symbol CSV cache     *)
(* (save_dataframe_to_csv, read_local_stock_data), the update pipeline     *)
(* (update_stock_data, update_stock_data_tool) and the read handlers       *)
(* (get_local_stock_data, get_historical_data).                            *)
(*                                                                         *)
(* A DataFrame is a sequence of rows [Date, v]: Date is the timestamp, v   *)
(* stands for the tuple (Open, High, Low, Close, Volume).  A CSV file is   *)
(* [exists, header, rows] whose rows carry the date as a string.           *)
(*                                                                         *)
(* Fault model: the provider call, the column selection, the creation of   *)
(* the temporary file, DataFrame.to_csv, os.rename and the copy that       *)
(* shutil.move falls back to may each raise.  Writes to stderr and the     *)
(* unlink of the caller's own temporary file do not fail.                  *)
(***************************************************************************)
EXTENDS Integers, Sequences, FiniteSets, TLC

\* Bounds of the model.
MaxDate == 3      \* calendar dates are 1..MaxDate
MaxTime == 6      \* elapsed time is counted up to MaxTime

\* line 215: time.sleep(5)
SleepSeconds == 5

Dates == 1..MaxDate
\* Two quotes are enough to tell a cached row from a revised one.
Values == {"q1", "q2"}
Symbols == {"AAPL", "aapl"}
Callers == {"c1", "c2"}
NoSymbol == ""

Rows == [Date : Dates, v : Values]

\* str.upper() of a symbol
Upper(symbol) == IF symbol = "aapl" THEN "AAPL" ELSE symbol

\* the symbol lower-cased to name the file
LowerPath(symbol) == IF symbol = "AAPL" THEN "aapl" ELSE symbol

\* lines 57 and 75: BASE_DATA_DIR / f"{symbol}.csv", the symbol as given
file_path(symbol) == symbol

\* ---------------------------------------------------------------------
\* Dates on disk: to_csv prints a timestamp, pd.to_datetime parses it.
\* ---------------------------------------------------------------------
DateStrings == [iso : 0..MaxDate]
BadDateStr == [iso |-> 0]
\* a format that prints no day: every date reads back as the first
FormatMonth(d) == [iso |-> 1]

FormatDate(d) == [iso |-> d]
CanParseDate(s) == s.iso \in Dates
ParseDate(s) == s.iso

FileRows == [Date : DateStrings, v : Values]

Absent == [exists |-> FALSE, header |-> FALSE, rows |-> <<>>]
EmptyFile == [exists |-> TRUE, header |-> FALSE, rows |-> <<>>]
MalformedFile == [exists |-> TRUE, header |-> TRUE,
                  rows |-> <<[Date |-> BadDateStr, v |-> "q1"]>>]

FormatRow(r) == [Date |-> FormatDate(r.Date), v |-> r.v]
ParseRow(r) == [Date |-> ParseDate(r.Date), v |-> r.v]

\* DataFrame.to_csv(path, index=False): a header line and one line per row.
ToCsv(df) ==
    [exists |-> TRUE, header |-> TRUE,
     rows |-> [i \in 1..Len(df) |-> FormatRow(df[i])]]

\* pd.read_csv + pd.to_datetime succeed: the file has a header with a Date
\* column and every date string parses.
Parseable(c) ==
    /\ c.exists
    /\ c.header
    /\ \A i \in 1..Len(c.rows) : CanParseDate(c.rows[i].Date)

ReadCsv(c) == [i \in 1..Len(c.rows) |-> ParseRow(c.rows[i])]

\* The first k units of a file being copied: unit 1 is the header line,
\* unit i+1 is row i.  k = 0 is the target just truncated by open(dst, 'wb').
Prefix(c, k) ==
    IF k = 0 THEN EmptyFile
    ELSE [exists |-> TRUE, header |-> TRUE, rows |-> SubSeq(c.rows, 1, k - 1)]

Units(c) == Len(c.rows) + 1

\* ---------------------------------------------------------------------
\* Merge: concat, drop duplicated index keeping the last, sort descending.
\* ---------------------------------------------------------------------
DateSet(df) == {df[i].Date : i \in 1..Len(df)}

\* duplicated(keep='first') in place of keep='last'
DupKeepFirst(df, i) == \E j \in 1..(i - 1) : df[j].Date = df[i].Date

DupKeepLast(df, i) == \E j \in (i + 1)..Len(df) : df[j].Date = df[i].Date

RECURSIVE DropFrom(_, _)
DropFrom(df, i) ==
    IF i > Len(df) THEN <<>>
    ELSE IF DupKeepLast(df, i) THEN DropFrom(df, i + 1)
    ELSE <<df[i]>> \o DropFrom(df, i + 1)

\* df_combined[~df_combined.index.duplicated(keep='last')]
DropDuplicated(df) == DropFrom(df, 1)

\* the concat without the duplicate removal
ConcatOnly(df_old, df_new) == df_old \o df_new

\* pd.concat([df_old, df_new]) followed by the duplicate removal
Merge(df_old, df_new) == DropDuplicated(df_old \o df_new)

RECURSIVE InsertDesc(_, _)
InsertDesc(r, s) ==
    IF s = <<>> THEN <<r>>
    ELSE IF r.Date > Head(s).Date THEN <<r>> \o s
    ELSE <<Head(s)>> \o InsertDesc(r, Tail(s))

\* the frame left in the order it came
Unsorted(df) == df

RECURSIVE SortDesc(_)
\* sort_index(ascending=False) / sort_values(by='Date', ascending=False)
SortDesc(df) ==
    IF df = <<>> THEN <<>>
    ELSE InsertDesc(Head(df), SortDesc(Tail(df)))

StrictlyDesc(df) == \A i \in 1..(Len(df) - 1) : df[i].Date > df[i + 1].Date

\* ---------------------------------------------------------------------
\* The provider (yfinance Ticker.history) and the column normalisation.
\* ---------------------------------------------------------------------
keep_columns == {"Open", "High", "Low", "Close", "Volume"}

\* Column sets the provider may answer with: the usual frame, a lower-case
\* one, and one that lacks required columns.
ProviderColumns ==
    { {"Open", "High", "Low", "Close", "Volume", "Dividends", "Stock Splits"},
      {"open", "high", "low", "close", "volume"},
      {"Open", "Close"} }

\* str.capitalize(): first letter upper case, the rest lower case.
Capitalize(c) ==
    CASE c = "open" -> "Open"
      [] c = "high" -> "High"
      [] c = "low" -> "Low"
      [] c = "close" -> "Close"
      [] c = "volume" -> "Volume"
      [] c = "Stock Splits" -> "Stock splits"
      [] OTHER -> c

\* df_new.columns = [col.capitalize() for col in df_new.columns]
NormalizeColumns(cols) == {Capitalize(c) : c \in cols}

\* df_new[keep_columns] raises KeyError unless every kept column is there.
CanSelect(cols) == keep_columns \subseteq cols

\* The frames history() can return: its index is chronological and holds
\* no date twice.
Frames ==
    {f \in UNION {[1..n -> Rows] : n \in 0..MaxDate} :
        \A i, j \in 1..Len(f) : i < j => f[i].Date < f[j].Date}

\* ---------------------------------------------------------------------
\* Results handed back to the caller.
\* ---------------------------------------------------------------------
NoResult == [status |-> "none", text |-> "", symbol |-> NoSymbol]

\* lines 83-86
FetchEmptyResult(symbol) ==
    [status |-> "error", text |-> "Unable to fetch data for", symbol |-> symbol]

\* lines 120-123
SaveOkResult(symbol) ==
    [status |-> "success", text |-> "Successfully updated data for",
     symbol |-> symbol]

\* lines 124-128
SaveExceptResult(symbol) ==
    [status |-> "error", text |-> "Error saving data", symbol |-> NoSymbol]

\* the exception let through instead of handled
Reraised(symbol) ==
    [status |-> "raised", text |-> "", symbol |-> symbol]

\* lines 130-136
OuterExceptResult(symbol) ==
    [status |-> "error", text |-> "Error updating data for", symbol |-> symbol]

\* lines 218-222
ToolExceptResult ==
    [status |-> "error", text |-> "Error updating data", symbol |-> NoSymbol]

\* Arguments of a tool call naming a symbol of S: pydantic rejects a dict
\* without 'symbol'.
ArgsOver(S) ==
    {[hasSymbol |-> FALSE, symbol |-> NoSymbol]}
        \cup [hasSymbol : {TRUE}, symbol : S]

NoRead == [status |-> "none", text |-> "", symbol |-> NoSymbol, data |-> <<>>,
           seen |-> Absent, racing |-> FALSE, prev |-> Absent, new |-> Absent]

VARIABLES
    file,          \* file[s]: content of BASE_DATA_DIR/<s>.csv
    tmp,           \* tmp[p]: the temporary file of caller p's save
    pc,            \* pc[p]: where caller p is in update_stock_data_tool
    sym,           \* sym[p]: symbol of the call
    df_new,        \* df_new[p]: fetched frame
    columns,       \* columns[p]: its columns
    df_combined,   \* df_combined[p]
    copied,        \* copied[p]: units shutil.move's copy has written
    saveOutcome,   \* how save_dataframe_to_csv ended: none, ok, raised
    result,        \* value returned by update_stock_data
    toolResult,    \* value returned by update_stock_data_tool
    before,        \* file of the symbol when the call began
    saveBefore,    \* file of the symbol when save_dataframe_to_csv began
    fetched,       \* what the provider did: none, raised, empty, frame
    reader,        \* the last read call: what it saw and returned
    elapsed        \* elapsed[p]: time since p's update_stock_data returned

vars == <<file, tmp, pc, sym, df_new, columns, df_combined, copied,
          saveOutcome, result, toolResult, before, saveBefore, fetched,
          reader, elapsed>>

\* the series an earlier update has stored for the other spelling
OtherSeries == ToCsv(<<[Date |-> 1, v |-> "q1"]>>)

\* The data directory may hold files from earlier runs; a file this server
\* did not write may be unreadable.
Init ==
    /\ file \in {[s \in Symbols |-> IF s = "AAPL" THEN c ELSE OtherSeries] :
                    c \in {Absent, MalformedFile}}
    /\ tmp = [p \in Callers |-> Absent]
    /\ pc = [p \in Callers |-> "idle"]
    /\ sym = [p \in Callers |-> NoSymbol]
    /\ df_new = [p \in Callers |-> <<>>]
    /\ columns = [p \in Callers |-> {}]
    /\ df_combined = [p \in Callers |-> <<>>]
    /\ copied = [p \in Callers |-> 0]
    /\ saveOutcome = [p \in Callers |-> "none"]
    /\ result = [p \in Callers |-> NoResult]
    /\ toolResult = [p \in Callers |-> NoResult]
    /\ before = [p \in Callers |-> Absent]
    /\ saveBefore = [p \in Callers |-> Absent]
    /\ fetched = [p \in Callers |-> "none"]
    /\ reader = NoRead
    /\ elapsed = [p \in Callers |-> 0]

\* update_stock_data starts over when its result is an error
ReturnRetry(p, r) ==
    /\ result' = [result EXCEPT ![p] = r]
    /\ pc' = [pc EXCEPT ![p] = IF r.status = "error" THEN "fetch" ELSE "ret"]

\* update_stock_data returns r (lines 83, 120, 125, 133).
Return(p, r) ==
    /\ result' = [result EXCEPT ![p] = r]
    /\ pc' = [pc EXCEPT ![p] = "ret"]

\* update_stock_data_tool, lines 203-210: validate the arguments, call
\* update_stock_data.
Call(p, args) ==
    /\ pc[p] = "idle"
    /\ IF args.hasSymbol
       THEN /\ pc' = [pc EXCEPT ![p] = "fetch"]
            /\ sym' = [sym EXCEPT ![p] = args.symbol]
            /\ before' = [before EXCEPT ![p] = file[file_path(args.symbol)]]
            /\ UNCHANGED toolResult
       ELSE /\ pc' = [pc EXCEPT ![p] = "done"]
            /\ toolResult' = [toolResult EXCEPT ![p] = ToolExceptResult]
            /\ UNCHANGED <<sym, before>>
    /\ UNCHANGED <<elapsed,
                   fetched,
                   file, tmp, df_new, columns, df_combined, copied,
                   saveOutcome, result, saveBefore, reader>>

\* the emptiness test left out
NeverEmpty(df) == FALSE

\* line 82: df_new.empty
Empty(df) == df = <<>>

\* lines 79-86: the provider raises, or answers a frame; an empty frame
\* ends the call.
Fetch(p) ==
    /\ pc[p] = "fetch"
    /\ \/ /\ Return(p, OuterExceptResult(sym[p]))
          /\ fetched' = [fetched EXCEPT ![p] = "raised"]
          /\ UNCHANGED <<df_new, columns>>
       \/ \E f \in Frames, cols \in ProviderColumns :
            /\ fetched' = [fetched EXCEPT ![p] =
                              IF f = <<>> THEN "empty" ELSE "frame"]
            /\ df_new' = [df_new EXCEPT ![p] = f]
            /\ columns' = [columns EXCEPT ![p] = cols]
            /\ IF Empty(f)
               THEN Return(p, FetchEmptyResult(sym[p]))
               ELSE /\ pc' = [pc EXCEPT ![p] = "normalize"]
                    /\ UNCHANGED result
    /\ UNCHANGED <<elapsed,
                   file, tmp, sym, df_combined, copied, saveOutcome,
                   toolResult, before, saveBefore, reader>>

\* lines 89-93
Normalize(p) ==
    /\ pc[p] = "normalize"
    /\ IF CanSelect(NormalizeColumns(columns[p]))
       THEN /\ columns' = [columns EXCEPT ![p] = keep_columns]
            /\ pc' = [pc EXCEPT ![p] = "load"]
            /\ UNCHANGED result
       ELSE /\ Return(p, OuterExceptResult(sym[p]))
            /\ UNCHANGED columns
    /\ UNCHANGED <<elapsed,
                   fetched,
                   file, tmp, sym, df_new, df_combined, copied, saveOutcome,
                   toolResult, before, saveBefore, reader>>

\* the fetched frame alone, the prior file ignored
CombinedNewOnly(old, new) == new

\* the prior file merged without the handler of lines 105-107, its bad
\* dates coerced instead of raising
CombinedCoerce(old, new) ==
    IF old.exists THEN Merge(ReadCsv(old), new) ELSE new

\* lines 96-109: the frame to store, before sorting.
Combined(old, new) ==
    IF old.exists /\ Parseable(old) THEN Merge(ReadCsv(old), new) ELSE new

LoadMerge(p) ==
    /\ pc[p] = "load"
    /\ df_combined' = [df_combined EXCEPT ![p] =
                          Combined(file[file_path(sym[p])], df_new[p])]
    /\ pc' = [pc EXCEPT ![p] = "sort"]
    /\ UNCHANGED <<elapsed,
                   fetched,
                   file, tmp, sym, df_new, columns, copied, saveOutcome,
                   result, toolResult, before, saveBefore, reader>>

\* lines 112-115
SortReset(p) ==
    /\ pc[p] = "sort"
    /\ df_combined' = [df_combined EXCEPT ![p] = SortDesc(df_combined[p])]
    /\ pc' = [pc EXCEPT ![p] = "save"]
    /\ UNCHANGED <<elapsed,
                   fetched,
                   file, tmp, sym, df_new, columns, copied, saveOutcome,
                   result, toolResult, before, saveBefore, reader>>

\* ---------------------------------------------------------------------
\* save_dataframe_to_csv, lines 33-52.
\* ---------------------------------------------------------------------
\* os.rename(temp, target): the target name now denotes the temporary file.
RenameOnto(target, temp) == temp

\* the handler without the unlink
CleanupSkipped(temp) == temp

\* lines 45-49: the handler unlinks the temporary file if it exists.
Cleanup(temp) == Absent

\* save_dataframe_to_csv ends: it returned (ok) or raised.
SaveEnds(p, outcome) ==
    /\ saveOutcome' = [saveOutcome EXCEPT ![p] = outcome]
    /\ pc' = [pc EXCEPT ![p] = "saved"]

\* line 37: NamedTemporaryFile(delete=False, dir=BASE_DATA_DIR)
SaveCreateTemp(p) ==
    /\ pc[p] = "save"
    /\ saveBefore' = [saveBefore EXCEPT ![p] = file[file_path(sym[p])]]
    /\ \/ /\ tmp' = [tmp EXCEPT ![p] = EmptyFile]
          /\ pc' = [pc EXCEPT ![p] = "to_csv"]
          /\ UNCHANGED saveOutcome
       \/ /\ SaveEnds(p, "raised")
          /\ UNCHANGED tmp
    /\ UNCHANGED <<elapsed,
                   fetched,
                   file, sym, df_new, columns, df_combined, copied, result,
                   toolResult, before, reader>>

\* line 41: df.to_csv(temp_path); on failure lines 45-49 remove what was
\* written of the temporary file and re-raise.
SaveToCsv(p) ==
    /\ pc[p] = "to_csv"
    /\ \/ /\ tmp' = [tmp EXCEPT ![p] = ToCsv(df_combined[p])]
          /\ pc' = [pc EXCEPT ![p] = "move"]
          /\ UNCHANGED saveOutcome
       \/ /\ tmp' = [tmp EXCEPT ![p] = Cleanup(tmp[p])]
          /\ SaveEnds(p, "raised")
    /\ UNCHANGED <<elapsed,
                   fetched,
                   file, sym, df_new, columns, df_combined, copied, result,
                   toolResult, before, saveBefore, reader>>

\* line 43: shutil.move(temp, target) is os.rename and, when os.rename
\* raises OSError, copy2(temp, target) followed by os.unlink(temp).  copy2
\* opens the target with 'wb' (which truncates it) and writes it piecewise.
SaveMove(p) ==
    /\ pc[p] = "move"
    /\ \/ \* os.rename succeeds
          /\ file' = [file EXCEPT ![file_path(sym[p])] = RenameOnto(@, tmp[p])]
          /\ tmp' = [tmp EXCEPT ![p] = Absent]
          /\ SaveEnds(p, "ok")
          /\ UNCHANGED copied
       \/ \* os.rename fails and so does opening the target for the copy
          /\ tmp' = [tmp EXCEPT ![p] = Cleanup(tmp[p])]
          /\ SaveEnds(p, "raised")
          /\ UNCHANGED <<file, copied>>
       \/ \* os.rename fails, the copy opens (truncates) the target
          /\ file' = [file EXCEPT ![file_path(sym[p])] = Prefix(tmp[p], 0)]
          /\ copied' = [copied EXCEPT ![p] = 0]
          /\ pc' = [pc EXCEPT ![p] = "copy"]
          /\ UNCHANGED <<tmp, saveOutcome>>
    /\ UNCHANGED <<elapsed,
                   fetched,
                   sym, df_new, columns, df_combined, result, toolResult,
                   before, saveBefore, reader>>

\* the copy loop of shutil.copyfile: one more unit reaches the target, or
\* the write fails and lines 45-49 run.
SaveCopy(p) ==
    /\ pc[p] = "copy"
    /\ copied[p] < Units(tmp[p])
    /\ \/ /\ copied' = [copied EXCEPT ![p] = @ + 1]
          /\ file' = [file EXCEPT ![file_path(sym[p])] =
                            Prefix(tmp[p], copied[p] + 1)]
          /\ UNCHANGED <<tmp, pc, saveOutcome>>
       \/ /\ tmp' = [tmp EXCEPT ![p] = Cleanup(tmp[p])]
          /\ SaveEnds(p, "raised")
          /\ UNCHANGED <<file, copied>>
    /\ UNCHANGED <<elapsed,
                   fetched,
                   sym, df_new, columns, df_combined, result, toolResult,
                   before, saveBefore, reader>>

\* the copy is complete: shutil.move unlinks the temporary file.
SaveCopyDone(p) ==
    /\ pc[p] = "copy"
    /\ copied[p] = Units(tmp[p])
    /\ tmp' = [tmp EXCEPT ![p] = Absent]
    /\ SaveEnds(p, "ok")
    /\ UNCHANGED <<elapsed,
                   fetched,
                   file, sym, df_new, columns, df_combined, copied, result,
                   toolResult, before, saveBefore, reader>>

\* lines 118-128: update_stock_data turns the outcome of the save into its
\* result.
SaveReturn(p) ==
    /\ pc[p] = "saved"
    /\ Return(p, IF saveOutcome[p] = "ok" THEN SaveOkResult(sym[p])
                 ELSE SaveExceptResult(sym[p]))
    /\ UNCHANGED <<elapsed,
                   fetched,
                   file, tmp, sym, df_new, columns, df_combined, copied,
                   saveOutcome, toolResult, before, saveBefore, reader>>

\* ---------------------------------------------------------------------
\* update_stock_data_tool after the call, lines 210-222.
\* ---------------------------------------------------------------------
\* lines 211-212, and the handler of lines 218-222 for anything raised.
ToolCheck(p) ==
    /\ pc[p] = "ret"
    /\ IF result[p].status = "success"
       THEN /\ pc' = [pc EXCEPT ![p] = "sleep"]
            /\ UNCHANGED toolResult
       ELSE /\ pc' = [pc EXCEPT ![p] = "done"]
            /\ toolResult' = [toolResult EXCEPT ![p] =
                    IF result[p].status = "error" THEN result[p]
                    ELSE ToolExceptResult]
    /\ UNCHANGED <<elapsed,
                   fetched,
                   file, tmp, sym, df_new, columns, df_combined, copied,
                   saveOutcome, result, before, saveBefore, reader>>

\* time t and d more, counted up to MaxTime
Later(t, d) == IF t + d > MaxTime THEN MaxTime ELSE t + d

\* the cooldown left out
NotSlept(t) == t

\* line 215: time.sleep(5) lets SleepSeconds pass
Slept(t) == Later(t, SleepSeconds)

\* lines 215-217: time.sleep(5), then return the result.
Cooldown(p) ==
    /\ pc[p] = "sleep"
    /\ elapsed' = [elapsed EXCEPT ![p] = Slept(@)]
    /\ toolResult' = [toolResult EXCEPT ![p] = result[p]]
    /\ pc' = [pc EXCEPT ![p] = "done"]
    /\ UNCHANGED <<fetched,
                   file, tmp, sym, df_new, columns, df_combined, copied,
                   saveOutcome, result, before, saveBefore, reader>>

\* The caller has its answer; the frame of the call is gone.
Finish(p) ==
    /\ pc[p] = "done"
    /\ pc' = [pc EXCEPT ![p] = "idle"]
    /\ sym' = [sym EXCEPT ![p] = NoSymbol]
    /\ df_new' = [df_new EXCEPT ![p] = <<>>]
    /\ columns' = [columns EXCEPT ![p] = {}]
    /\ df_combined' = [df_combined EXCEPT ![p] = <<>>]
    /\ copied' = [copied EXCEPT ![p] = 0]
    /\ saveOutcome' = [saveOutcome EXCEPT ![p] = "none"]
    /\ result' = [result EXCEPT ![p] = NoResult]
    /\ toolResult' = [toolResult EXCEPT ![p] = NoResult]
    /\ before' = [before EXCEPT ![p] = Absent]
    /\ saveBefore' = [saveBefore EXCEPT ![p] = Absent]
    /\ fetched' = [fetched EXCEPT ![p] = "none"]
    /\ elapsed' = [elapsed EXCEPT ![p] = 0]
    /\ UNCHANGED <<file, tmp, reader>>

\* ---------------------------------------------------------------------
\* Reads: read_local_stock_data and its two handlers.
\* ---------------------------------------------------------------------
None == [none |-> TRUE, data |-> <<>>]

\* lines 54-67
read_local_stock_data(c) ==
    IF ~c.exists THEN None
    ELSE IF Parseable(c) THEN [none |-> FALSE, data |-> SortDesc(ReadCsv(c))]
    ELSE None

\* the answer without the test for None
ReadAnswerUnchecked(symbol, data) ==
    [status |-> "success",
     text |-> "Successfully retrieved historical data for",
     symbol |-> symbol, data |-> data.data]

\* lines 142-154 and 175-187
ReadAnswer(symbol, data) ==
    IF data.none
    THEN [status |-> "error", text |-> "Data not found for symbol",
          symbol |-> symbol, data |-> <<>>]
    ELSE [status |-> "success",
          text |-> "Successfully retrieved historical data for",
          symbol |-> symbol, data |-> data.data]

\* lines 188-193
ReadExceptAnswer ==
    [status |-> "error", text |-> "Error retrieving data", symbol |-> NoSymbol,
     data |-> <<>>]

InSave(p, s) == pc[p] \in {"to_csv", "move", "copy"} /\ sym[p] = s

\* get_local_stock_data(args) / get_historical_data(symbol), run to its
\* return.  seen, racing, prev and new record the file as the read found
\* it and the save, if any, that was writing the symbol at that moment.
Read(args) ==
    /\ reader = NoRead
    /\ IF args.hasSymbol
       THEN LET s == args.symbol
                c == file[file_path(s)]
                a == ReadAnswer(s, read_local_stock_data(c))
                w == {p \in Callers : InSave(p, s)}
            IN reader' =
                 [status |-> a.status, text |-> a.text, symbol |-> a.symbol,
                  data |-> a.data, seen |-> c, racing |-> w # {},
                  prev |-> IF w = {} THEN c
                           ELSE saveBefore[CHOOSE p \in w : TRUE],
                  new |-> IF w = {} THEN c
                          ELSE ToCsv(df_combined[CHOOSE p \in w : TRUE])]
       ELSE reader' =
                 [status |-> ReadExceptAnswer.status,
                  text |-> ReadExceptAnswer.text,
                  symbol |-> ReadExceptAnswer.symbol,
                  data |-> ReadExceptAnswer.data, seen |-> Absent,
                  racing |-> FALSE, prev |-> Absent, new |-> Absent]
    /\ UNCHANGED <<elapsed,
                   fetched,
                   file, tmp, pc, sym, df_new, columns, df_combined, copied,
                   saveOutcome, result, toolResult, before, saveBefore>>

\* The reader has taken its answer.
ReadReturn ==
    /\ reader # NoRead
    /\ reader' = NoRead
    /\ UNCHANGED <<elapsed,
                   fetched,
                   file, tmp, pc, sym, df_new, columns, df_combined, copied,
                   saveOutcome, result, toolResult, before, saveBefore>>

\* Time passes while caller p, whose update_stock_data has returned, is
\* still inside update_stock_data_tool.
Tick(p) ==
    /\ pc[p] \in {"ret", "sleep"}
    /\ elapsed[p] < MaxTime
    /\ elapsed' = [elapsed EXCEPT ![p] = @ + 1]
    /\ UNCHANGED <<file, tmp, pc, sym, df_new, columns, df_combined, copied,
                   saveOutcome, result, toolResult, before, saveBefore,
                   fetched, reader>>

\* ---------------------------------------------------------------------
\* One caller of the update tool, one reader.
\* ---------------------------------------------------------------------
\* A read handler runs to its return before the update takes its next
\* step: the return touches nothing the update uses.
ReadDone == reader = NoRead

\* The updates of Spec are for one symbol; reads are for any.
Next ==
    \/ ReadDone /\ \E args \in ArgsOver({"AAPL"}) : Call("c1", args)
    \/ ReadDone /\ Fetch("c1")
    \/ ReadDone /\ Normalize("c1")
    \/ ReadDone /\ LoadMerge("c1")
    \/ ReadDone /\ SortReset("c1")
    \/ ReadDone /\ SaveCreateTemp("c1")
    \/ ReadDone /\ SaveToCsv("c1")
    \/ ReadDone /\ SaveMove("c1")
    \/ ReadDone /\ SaveCopy("c1")
    \/ ReadDone /\ SaveCopyDone("c1")
    \/ ReadDone /\ SaveReturn("c1")
    \/ ReadDone /\ ToolCheck("c1")
    \/ ReadDone /\ Cooldown("c1")
    \/ ReadDone /\ Finish("c1")
    \/ \E args \in ArgsOver(Symbols) : Read(args)
    \/ ReadReturn

Spec == Init /\ [][Next]_vars

\* ---------------------------------------------------------------------
\* One update call over a directory that earlier calls have left; every
\* step the caller has begun completes (the provider call has a timeout,
\* the rest is local).
\* ---------------------------------------------------------------------
\* what a complete save of one day's row leaves in a file
StoredFiles == {ToCsv(SortDesc(f)) : f \in {g \in Frames : Len(g) = 1}}

InitStored ==
    /\ file \in {g \in [Symbols -> {Absent, MalformedFile} \cup StoredFiles] :
                    g["aapl"] = Absent}
    /\ tmp = [p \in Callers |-> Absent]
    /\ pc = [p \in Callers |-> "idle"]
    /\ sym = [p \in Callers |-> NoSymbol]
    /\ df_new = [p \in Callers |-> <<>>]
    /\ columns = [p \in Callers |-> {}]
    /\ df_combined = [p \in Callers |-> <<>>]
    /\ copied = [p \in Callers |-> 0]
    /\ saveOutcome = [p \in Callers |-> "none"]
    /\ result = [p \in Callers |-> NoResult]
    /\ toolResult = [p \in Callers |-> NoResult]
    /\ before = [p \in Callers |-> Absent]
    /\ saveBefore = [p \in Callers |-> Absent]
    /\ fetched = [p \in Callers |-> "none"]
    /\ reader = NoRead
    /\ elapsed = [p \in Callers |-> 0]

StepLive ==
    \/ Fetch("c1")
    \/ Normalize("c1")
    \/ LoadMerge("c1")
    \/ SortReset("c1")
    \/ SaveCreateTemp("c1")
    \/ SaveToCsv("c1")
    \/ SaveMove("c1")
    \/ SaveCopy("c1")
    \/ SaveCopyDone("c1")
    \/ SaveReturn("c1")
    \/ ToolCheck("c1")
    \/ Cooldown("c1")

NextLive ==
    \/ \E args \in ArgsOver({"AAPL"}) : Call("c1", args)
    \/ Fetch("c1")
    \/ Normalize("c1")
    \/ LoadMerge("c1")
    \/ SortReset("c1")
    \/ SaveCreateTemp("c1")
    \/ SaveToCsv("c1")
    \/ SaveMove("c1")
    \/ SaveCopy("c1")
    \/ SaveCopyDone("c1")
    \/ SaveReturn("c1")
    \/ ToolCheck("c1")
    \/ Cooldown("c1")

SpecLive == InitStored /\ [][NextLive]_vars /\ WF_vars(StepLive)

\* ---------------------------------------------------------------------
\* One caller of the update tool, call after call, and the clock.
\* ---------------------------------------------------------------------
NextTime ==
    \/ \E args \in ArgsOver({"AAPL"}) : Call("c1", args)
    \/ Fetch("c1")
    \/ Normalize("c1")
    \/ LoadMerge("c1")
    \/ SortReset("c1")
    \/ SaveCreateTemp("c1")
    \/ SaveToCsv("c1")
    \/ SaveMove("c1")
    \/ SaveCopy("c1")
    \/ SaveCopyDone("c1")
    \/ SaveReturn("c1")
    \/ ToolCheck("c1")
    \/ Cooldown("c1")
    \/ Finish("c1")
    \/ Tick("c1")

SpecTime == Init /\ [][NextTime]_vars

\* ---------------------------------------------------------------------
\* An empty storage directory, one update call for either spelling of the
\* symbol, and reads.
\* ---------------------------------------------------------------------
InitEmpty ==
    /\ file = [s \in Symbols |-> Absent]
    /\ tmp = [p \in Callers |-> Absent]
    /\ pc = [p \in Callers |-> "idle"]
    /\ sym = [p \in Callers |-> NoSymbol]
    /\ df_new = [p \in Callers |-> <<>>]
    /\ columns = [p \in Callers |-> {}]
    /\ df_combined = [p \in Callers |-> <<>>]
    /\ copied = [p \in Callers |-> 0]
    /\ saveOutcome = [p \in Callers |-> "none"]
    /\ result = [p \in Callers |-> NoResult]
    /\ toolResult = [p \in Callers |-> NoResult]
    /\ before = [p \in Callers |-> Absent]
    /\ saveBefore = [p \in Callers |-> Absent]
    /\ fetched = [p \in Callers |-> "none"]
    /\ reader = NoRead
    /\ elapsed = [p \in Callers |-> 0]

NextFresh ==
    \/ ReadDone /\ \E args \in ArgsOver(Symbols) : Call("c1", args)
    \/ ReadDone /\ Fetch("c1")
    \/ ReadDone /\ Normalize("c1")
    \/ ReadDone /\ LoadMerge("c1")
    \/ ReadDone /\ SortReset("c1")
    \/ ReadDone /\ SaveCreateTemp("c1")
    \/ ReadDone /\ SaveToCsv("c1")
    \/ ReadDone /\ SaveMove("c1")
    \/ ReadDone /\ SaveCopy("c1")
    \/ ReadDone /\ SaveCopyDone("c1")
    \/ ReadDone /\ SaveReturn("c1")
    \/ ReadDone /\ ToolCheck("c1")
    \/ ReadDone /\ Cooldown("c1")
    \/ \E args \in ArgsOver(Symbols) : Read(args)
    \/ ReadReturn

SpecFresh == InitEmpty /\ [][NextFresh]_vars

\* ---------------------------------------------------------------------
\* Two update calls for one symbol, served at once.  The steps before
\* the save touch only the call's own frame and read the file, which
\* changes with the first write: c1 takes them first, c2 second, and the
\* two saves interleave step by step once both calls are past loading.
\* The provider answers both from one history: c2, asking from a later
\* start date, is given a tail of the frame c1 was given.
\* ---------------------------------------------------------------------
Tails(df) == {SubSeq(df, k, Len(df)) : k \in 1..Len(df)}

Loading(p) == pc[p] \in {"fetch", "normalize", "load", "sort"}

BothLoaded == \A p \in Callers : pc[p] # "idle" /\ ~Loading(p)

NextRace ==
    \/ \E args \in ArgsOver({"AAPL"}) : Call("c1", args)
    \/ Fetch("c1")
    \/ Normalize("c1")
    \/ LoadMerge("c1")
    \/ SortReset("c1")
    \/ /\ pc["c1"] # "idle" /\ ~Loading("c1")
       /\ \E args \in ArgsOver({"AAPL"}) : Call("c2", args)
    \/ /\ Fetch("c2")
       /\ fetched'["c2"] = "frame" => df_new'["c2"] \in Tails(df_new["c1"])
    \/ Normalize("c2")
    \/ LoadMerge("c2")
    \/ SortReset("c2")
    \/ BothLoaded /\ SaveCreateTemp("c1")
    \/ BothLoaded /\ SaveToCsv("c1")
    \/ BothLoaded /\ SaveMove("c1")
    \/ BothLoaded /\ SaveCopy("c1")
    \/ BothLoaded /\ SaveCopyDone("c1")
    \/ BothLoaded /\ SaveReturn("c1")
    \/ BothLoaded /\ ToolCheck("c1")
    \/ BothLoaded /\ Cooldown("c1")
    \/ BothLoaded /\ SaveCreateTemp("c2")
    \/ BothLoaded /\ SaveToCsv("c2")
    \/ BothLoaded /\ SaveMove("c2")
    \/ BothLoaded /\ SaveCopy("c2")
    \/ BothLoaded /\ SaveCopyDone("c2")
    \/ BothLoaded /\ SaveReturn("c2")
    \/ BothLoaded /\ ToolCheck("c2")
    \/ BothLoaded /\ Cooldown("c2")

SpecRace == InitStored /\ [][NextRace]_vars

\* ---------------------------------------------------------------------
\* Properties.
\* ---------------------------------------------------------------------
\* update_stock_data has returned to update_stock_data_tool.
Returned(p) == pc[p] \in {"ret", "sleep", "done"} /\ result[p] # NoResult

\* The prior file could not be loaded (lines 97-100 raise).
Unloadable(c) == c.exists /\ ~Parseable(c)

\* C1: when an update call has returned, an error result leaves the
\* symbol's file as it was when the call began, and a success result
\* leaves it holding the complete merged series; there is no third state.
C1_NoThirdState ==
    \A p \in Callers :
        Returned(p) =>
            /\ result[p].status = "error" => file[sym[p]] = before[p]
            /\ result[p].status = "success" =>
                   file[sym[p]] = ToCsv(SortDesc(Combined(before[p], df_new[p])))

\* C2: a read that runs while a save of the same symbol is in progress
\* finds under the symbol's path either the complete file from before the
\* save or the complete new file.
C2_ReaderSeesWholeFile ==
    reader.racing => reader.seen \in {reader.prev, reader.new}

\* C3: when save_dataframe_to_csv raises, its temporary file is gone and
\* the target is what it was when the save began.
C3_FailedSaveLeavesTarget ==
    \A p \in Callers :
        (pc[p] = "saved" /\ saveOutcome[p] = "raised") =>
            /\ tmp[p] = Absent
            /\ file[sym[p]] = saveBefore[p]

\* Dates of the series a file holds; none if it cannot be loaded.
PriorDates(c) == IF Parseable(c) THEN DateSet(ReadCsv(c)) ELSE {}

FileDates(c) == {c.rows[i].Date : i \in 1..Len(c.rows)}

Succeeded(p) == Returned(p) /\ result[p].status = "success"

\* C4: after a successful update of a symbol whose prior file loads, every
\* date that is both in the prior series and in the fetched frame is stored
\* once, with the fetched row.
C4_NewOverwritesOld ==
    \A p \in Callers :
        (Succeeded(p) /\ Parseable(before[p])) =>
            \A k \in 1..Len(df_new[p]) :
                df_new[p][k].Date \in PriorDates(before[p]) =>
                    LET stored == file[sym[p]].rows
                        at == {i \in 1..Len(stored) :
                                 stored[i].Date = FormatDate(df_new[p][k].Date)}
                    IN /\ Cardinality(at) = 1
                       /\ \A i \in at : stored[i] = FormatRow(df_new[p][k])

\* a successful update has replaced a cached row by a revised one
C4_Witness ==
    /\ Succeeded("c1")
    /\ Parseable(before["c1"])
    /\ \E k \in 1..Len(df_new["c1"]), i \in 1..Len(before["c1"].rows) :
          /\ before["c1"].rows[i].Date = FormatDate(df_new["c1"][k].Date)
          /\ before["c1"].rows[i].v # df_new["c1"][k].v

C7_EmptyFetchIsError ==
    \A p \in Callers :
        (fetched[p] = "empty" /\ pc[p] # "fetch") =>
            /\ Returned(p)
            /\ result[p].status = "error"
            /\ result[p].symbol = sym[p]
            /\ saveOutcome[p] = "none"
            /\ tmp[p] = Absent
            /\ file[sym[p]] = before[p]

\* an empty answer for a symbol that has a cached series
C7_Witness ==
    /\ fetched["c1"] = "empty"
    /\ pc["c1"] = "done"
    /\ Parseable(before["c1"])
    /\ toolResult["c1"] = FetchEmptyResult("AAPL")

\* C8: a read of a file that exists but cannot be parsed is answered
\* differently from a read of a symbol that has no file.
C8_MalformedReadIsNotAbsence ==
    (reader.status # "none" /\ Unloadable(reader.seen)) =>
        reader.text # ReadAnswer(reader.symbol, read_local_stock_data(Absent)).text

\* C9 as stated: whenever the prior file cannot be loaded and the fetched
\* frame reached the load step, the call returns success and the file holds
\* exactly the fetched rows, sorted descending.
C9_LoadErrorAlwaysSucceeds ==
    \A p \in Callers :
        (Returned(p) /\ Unloadable(before[p]) /\ saveOutcome[p] # "none") =>
            /\ result[p].status = "success"
            /\ file[sym[p]] = ToCsv(SortDesc(df_new[p]))

\* C9, amended: when the prior file cannot be loaded the update goes on as
\* if there were none: the frame handed to the save is exactly the fetched
\* rows sorted descending; if the save succeeds the call returns success
\* with that series stored, and only a failed save makes it return error.
C9_LoadErrorFallsBack ==
    \A p \in Callers :
        Unloadable(before[p]) =>
            /\ pc[p] \in {"save", "to_csv", "move", "copy", "saved"} =>
                   df_combined[p] = SortDesc(df_new[p])
            /\ (Returned(p) /\ saveOutcome[p] = "ok") =>
                   /\ result[p].status = "success"
                   /\ file[sym[p]] = ToCsv(SortDesc(df_new[p]))
            /\ (Returned(p) /\ saveOutcome[p] # "none"
                    /\ result[p].status = "error") =>
                   saveOutcome[p] = "raised"

\* an update over an unparseable file has stored a frame of two rows
C9_Witness ==
    /\ Succeeded("c1")
    /\ before["c1"] = MalformedFile
    /\ Len(df_new["c1"]) >= 2
    /\ file["AAPL"] = ToCsv(SortDesc(df_new["c1"]))

\* C10: update_stock_data and update_stock_data_tool always hand back a
\* result whose status is success or error and that carries a message.
C10_NoExceptionEscapes ==
    \A p \in Callers :
        /\ (pc[p] \in {"ret", "sleep", "done"} /\ sym[p] # NoSymbol) =>
              /\ result[p].status \in {"success", "error"}
              /\ result[p].text # ""
        /\ pc[p] = "done" =>
              /\ toolResult[p].status \in {"success", "error"}
              /\ toolResult[p].text # ""

\* a KeyError of the column selection came back as an error result
C10_Witness ==
    /\ pc["c1"] = "done"
    /\ fetched["c1"] = "frame"
    /\ saveOutcome["c1"] = "none"
    /\ toolResult["c1"] = OuterExceptResult("AAPL")

\* ---------------------------------------------------------------------
\* The course of one update call.
\* ---------------------------------------------------------------------
\* the place of a step in update_stock_data_tool and update_stock_data
Rank(l) ==
    CASE l = "idle" -> 0
      [] l = "fetch" -> 1
      [] l = "normalize" -> 2
      [] l = "load" -> 3
      [] l = "sort" -> 4
      [] l = "save" -> 5
      [] l = "to_csv" -> 6
      [] l = "move" -> 7
      [] l = "copy" -> 8
      [] l = "saved" -> 9
      [] l = "ret" -> 10
      [] l = "sleep" -> 11
      [] l = "done" -> 12

\* a call only moves forward through its steps; the next call starts
\* after the answer of this one
InOrder ==
    \A p \in Callers :
        pc'[p] # pc[p] =>
            \/ Rank(pc'[p]) > Rank(pc[p])
            \/ pc[p] = "done" /\ pc'[p] = "idle"

\* save_dataframe_to_csv is entered once the frame was fetched,
\* normalized, merged and sorted, and the file changes only inside it
WriteLast ==
    \A p \in Callers :
        /\ pc[p] \in {"save", "to_csv", "move", "copy", "saved"} =>
              /\ fetched[p] = "frame"
              /\ columns[p] = keep_columns
        /\ file' # file =>
              \E q \in Callers : pc[q] \in {"move", "copy"}

\* C11: every update call that has begun ends with exactly one answer,
\* success or error; its steps fetch, normalize, load and merge, write
\* come in this order and none is taken twice within the call.
C11_OneTerminalInOrder ==
    /\ [][InOrder /\ WriteLast]_vars
    /\ (pc["c1"] = "fetch") ~> (pc["c1"] = "done")
    /\ [](pc["c1"] = "done" => toolResult["c1"].status \in {"success", "error"})

\* a call that merged with a stored series has written and answered
C11_Witness ==
    /\ pc["c1"] = "done"
    /\ toolResult["c1"].status = "success"
    /\ Parseable(before["c1"])
    /\ file["AAPL"] = ToCsv(df_combined["c1"])

\* ---------------------------------------------------------------------
\* The cooldown.
\* ---------------------------------------------------------------------
\* C12: a successful update is answered only when SleepSeconds have passed
\* since update_stock_data returned; until then the call is still inside
\* update_stock_data_tool, so the one-request-at-a-time server cannot
\* have begun the next update.
C12_CooldownInsideCall ==
    \A p \in Callers :
        /\ (pc[p] = "done" /\ toolResult[p].status = "success") =>
              elapsed[p] >= SleepSeconds
        /\ (result[p].status = "success" /\ elapsed[p] < SleepSeconds) =>
              pc[p] \in {"ret", "sleep"}

\* a successful update answered exactly SleepSeconds after its save
C12_Witness ==
    /\ pc["c1"] = "done"
    /\ toolResult["c1"] = SaveOkResult("AAPL")
    /\ elapsed["c1"] = SleepSeconds

\* ---------------------------------------------------------------------
\* The life of a file.
\* ---------------------------------------------------------------------
\* C13: in a directory that was empty, a symbol's file exists only when
\* an update of that symbol has put it there and, once answered, answered
\* success; and a file that exists is never removed.
C13_FileOnlyAfterSuccess ==
    /\ [](\A s \in Symbols :
            file[file_path(s)].exists =>
                \E p \in Callers :
                    /\ sym[p] = s
                    /\ pc[p] = "done" => toolResult[p].status = "success")
    /\ [][\A s \in Symbols :
            file[file_path(s)].exists => file'[file_path(s)].exists]_vars

\* ---------------------------------------------------------------------
\* Spellings of a symbol.
\* ---------------------------------------------------------------------
\* C14: whatever the letter case of the symbol given, an update stores
\* into, and a read reads, the file named by the uppercase symbol, so
\* only files with uppercase names exist.
C14_OneFilePerSymbol ==
    /\ \A p \in Callers :
            Succeeded(p) => file[Upper(sym[p])] = ToCsv(df_combined[p])
    /\ (reader # NoRead /\ reader.symbol # NoSymbol) =>
            reader.seen = file[Upper(reader.symbol)]
    /\ \A s \in Symbols : file[s].exists => s = Upper(s)

\* ---------------------------------------------------------------------
\* Writing and reading back.
\* ---------------------------------------------------------------------
RowSet(df) == {df[i] : i \in 1..Len(df)}

C16_ReadAnswers ==
    reader # NoRead =>
        /\ reader.status \in {"success", "error"}
        /\ reader.symbol # NoSymbol =>
              /\ reader.status = "success" <=> Parseable(reader.seen)
              /\ reader.status = "success" =>
                    /\ Len(reader.data) = Len(reader.seen.rows)
                    /\ RowSet(reader.data) = RowSet(ReadCsv(reader.seen))
              /\ ~reader.seen.exists =>
                    /\ reader.status = "error"
                    /\ reader.data = <<>>

\* a read of a symbol with no file, while the other spelling has one
C16_Witness ==
    /\ reader # NoRead
    /\ reader.symbol = "AAPL"
    /\ ~reader.seen.exists
    /\ reader.status = "error"
    /\ reader.data = <<>>
    /\ Parseable(file["aapl"])

\* ---------------------------------------------------------------------
\* Updates that add nothing.
\* ---------------------------------------------------------------------
\* the fetch of p brought only rows the prior file already held
AddsNothing(p) ==
    /\ Parseable(before[p])
    /\ RowSet(df_new[p]) \subseteq RowSet(ReadCsv(before[p]))

\* C17: an update whose fetch is empty, or brings only rows the stored
\* series already holds, leaves the file as it was; and merging the
\* fetched rows into the series just stored gives that series again.
C17_MergeIdempotent ==
    \A p \in Callers :
        /\ (pc[p] = "done" /\ fetched[p] = "empty") =>
              file[file_path(sym[p])] = before[p]
        /\ (Succeeded(p) /\ AddsNothing(p)) =>
              file[file_path(sym[p])] = before[p]
        /\ Succeeded(p) =>
              SortDesc(Combined(ToCsv(df_combined[p]), df_new[p]))
                  = df_combined[p]

\* the same day was fetched again over a stored series of more days
C17_Witness ==
    /\ Succeeded("c1")
    /\ AddsNothing("c1")
    /\ Len(before["c1"].rows) > Len(df_new["c1"])
    /\ file["AAPL"] = before["c1"]

\* ---------------------------------------------------------------------
\* Two updates of one symbol at once.
\* ---------------------------------------------------------------------
\* C18: when two updates of one symbol have both loaded the prior series
\* before either wrote, and both have answered, the file is the complete
\* output of one of the calls that stored, never part of one or a mixture.
C18_LastWriterWins ==
    (/\ \A p \in Callers : pc[p] = "done"
     /\ \E p \in Callers : toolResult[p].status = "success") =>
        \E p \in Callers :
            /\ toolResult[p].status = "success"
            /\ file["AAPL"] = ToCsv(df_combined[p])

\* ---------------------------------------------------------------------
\* What a call leaves alone.
\* ---------------------------------------------------------------------
\* C19: a step changes the file of a symbol only if it is a step of the
\* save of an update call for that very symbol; a read changes no file.
C19_Frame ==
    [][\A s \in Symbols :
          file'[file_path(s)] # file[file_path(s)] =>
              /\ reader' = reader
              /\ \E p \in Callers :
                    sym[p] = s /\ pc[p] \in {"move", "copy"}]_vars

\* an update has replaced its symbol's file and a read was served while
\* the file of the other symbol is as it was at the start
C19_Witness ==
    /\ Succeeded("c1")
    /\ file["AAPL"] # before["c1"]
    /\ file["aapl"] = OtherSeries
    /\ reader # NoRead

\* ---------------------------------------------------------------------
\* Temporary files.
\* ---------------------------------------------------------------------
\* C20: outside save_dataframe_to_csv no temporary file of a caller is in
\* the directory: the save renamed it onto the target, or copied it and
\* unlinked it, or failed and unlinked it.
C20_NoTempLeftBehind ==
    \A p \in Callers :
        pc[p] \notin {"to_csv", "move", "copy"} => tmp[p] = Absent

\* a save whose fallback copy failed after it had changed the target
C20_Witness ==
    /\ pc["c1"] = "saved"
    /\ saveOutcome["c1"] = "raised"
    /\ file["AAPL"] # saveBefore["c1"]
    /\ tmp["c1"] = Absent

====
